---- MODULE Spec2Model ----
(***************************************************************************)
(* Model of server.js: the heart-marker service.                           *)
(*   POST /api/hearts  -> presence check, reverse geocoding (best effort), *)
(*                        record construction, store write, response       *)
(*   GET  /api/hearts  -> store read sorted by timestamp descending        *)
(* Every await of a handler is a step boundary: other handlers, the store, *)
(* the geocoder and the clock may act between two steps of one handler.    *)
(***************************************************************************)
EXTENDS Integers, Sequences, FiniteSets

\* ------------------------------------------------------------------ bounds
MaxReq == 2        \* creation requests per run
MaxClock == 1      \* the server clock runs 0..MaxClock
MaxCodeLen == 3    \* longest country_code the geocoder model sends

\* ------------------------------------------------------------ JS values
\* An optional (possibly undefined) value is a sequence of length <= 1.
None == << >>
Some(v) == << v >>

\* JS truthiness of an optional string: undefined and "" are falsy.
TruthyStr(o) == o # None /\ o[1] # ""

\* A country code is a sequence of one-character strings.
Chars == {"f", "r"}
XX == << "X", "X" >>

ToUpperChar(c) == IF c = "f" THEN "F" ELSE IF c = "r" THEN "R" ELSE c

\* Mutant: the code is stored as the geocoder sent it.
NoUpperCase(s) == s

toUpperCase(s) == [i \in 1..Len(s) |-> ToUpperChar(s[i])]

\* JS truthiness of an optional code string: undefined and "" are falsy.
TruthyCode(o) == o # None /\ Len(o[1]) > 0

Codes == UNION {[1..n -> Chars] : n \in 0..MaxCodeLen}

\* ------------------------------------------------------------ heartSchema
HeartTypes == {"redHeart", "silverHeart", "yellowHeart"}

\* The schema's validation at save: type is required and in the enumeration.
Validates(h) == h.type \in HeartTypes

NoHeart == [id |-> 0, type |-> "", latitude |-> 0, longitude |-> 0, message |-> "",
            countryName |-> "", countryCode |-> << >>, timestamp |-> 0]

\* ------------------------------------------------------- request bodies
Bodies == [type : {None, Some(""), Some("redHeart"), Some("blueHeart")},
           latitude : {None, Some(0)},
           longitude : {None, Some(2)},
           message : {None, Some("hi")},
           timestamp : {None, Some(0)}]

NoBody == [type |-> None, latitude |-> None, longitude |-> None, message |-> None,
           timestamp |-> None]

\* The bodies of the concurrent specification: one without a type and one
\* complete.
ConcBodies ==
    {b \in Bodies : /\ b.type \in {None, Some("redHeart")}
                     /\ b.latitude # None /\ b.longitude # None
                     /\ b.message = None /\ b.timestamp = None}

\* ------------------------------------------------- geocoder responses
\* kind: "reject"  fetch rejects (transport failure)
\*       "notok"   an HTTP answer with response.ok false
\*       "badjson" response.ok, and response.json() throws
\*       "json"    response.ok with a parsed body; address says whether
\*                 data.address is there, country and country_code are its fields
NoResp == [kind |-> "none", address |-> FALSE, country |-> None, country_code |-> None]

Failure(k) == [kind |-> k, address |-> FALSE, country |-> None, country_code |-> None]

Responses ==
    {Failure("reject"), Failure("notok"), Failure("badjson"), Failure("json")}
    \cup [kind : {"json"}, address : {TRUE},
          country : {None, Some(""), Some("France")},
          country_code : {None} \cup {Some(c) : c \in Codes}]

\* The response of the concurrent specification: a country.
ConcResponses ==
    {[kind |-> "json", address |-> TRUE, country |-> Some("France"),
      country_code |-> Some(<< "f", "r" >>)]}

\* ------------------------------------------------------------------ state
VARIABLES
    clock,   \* the server clock (Date), never running backwards
    reqs,    \* the creation requests, by arrival number
    store,   \* the hearts collection, in the order the writes were applied
    built,   \* arrival numbers, in the order the handler built the records
    get      \* the list request in flight, and the last list response

vars == << clock, reqs, store, built, get >>

Reqs == 1..MaxReq

\* pc: "idle"     not yet received
\*     "fetching" awaiting getCountryFromServerLatLng (line 74)
\*     "saving"   awaiting newHeart.save() (line 86)
\*     "saved"    the store applied the write; the handler has not resumed
\*     "rejected" save() rejected; the handler has not resumed
\*     "done"     the response was sent
\* wrote: how save() settled: "none" (not yet), "ok", "failed"
NoReq == [pc |-> "idle", body |-> NoBody, recvAt |-> 0, fetches |-> 0,
          resp |-> NoResp, geo |-> [threw |-> FALSE, countryName |-> "", countryCode |-> << >>],
          heart |-> NoHeart, wrote |-> "none", status |-> 0, error |-> "", nresp |-> 0]

NoGet == [pc |-> "idle", status |-> 0, body |-> << >>, error |-> "",
          acked |-> 0, unacked |-> 0]

Init ==
    /\ clock = 0
    /\ reqs = [r \in Reqs |-> NoReq]
    /\ store = << >>
    /\ built = << >>
    /\ get = NoGet

\* -------------------------------------------- getCountryFromServerLatLng
Returned(name, code) == [threw |-> FALSE, countryName |-> name, countryCode |-> code]

Thrown == [threw |-> TRUE, countryName |-> "", countryCode |-> << >>]

\* Mutant: a missing country falls back to the schema's default.
CountryNameOfSchemaDefault(resp) ==
    IF TruthyStr(resp.country) THEN resp.country[1] ELSE "Unknown"

\* data.address.country || 'the open sea'
CountryNameOf(resp) ==
    IF TruthyStr(resp.country) THEN resp.country[1] ELSE "the open sea"

\* data.address.country_code ? data.address.country_code.toUpperCase() : 'XX'
CountryCodeOf(resp) ==
    IF TruthyCode(resp.country_code) THEN toUpperCase(resp.country_code[1]) ELSE XX

\* Mutant: the response.ok check is missing; the error body parses to no address.
TryBodyIgnoresStatus(resp) ==
    IF resp.kind = "reject" THEN Thrown
    ELSE IF resp.kind = "badjson" THEN Thrown
    ELSE IF resp.address THEN Returned(CountryNameOf(resp), CountryCodeOf(resp))
    ELSE Returned("the open sea", XX)

\* The body of the try block (lines 44-57): what it returns, or that it threw.
TryBody(resp) ==
    IF resp.kind = "reject" THEN Thrown
    ELSE IF resp.kind = "notok" THEN Thrown
    ELSE IF resp.kind = "badjson" THEN Thrown
    ELSE IF resp.address THEN Returned(CountryNameOf(resp), CountryCodeOf(resp))
    ELSE Returned("the open sea", XX)

\* Mutant: the catch logs and rethrows.
CatchRethrows(t) == Thrown

\* The catch block (lines 58-61).
CatchBlock(t) == Returned("an unknown location", XX)

getCountryFromServerLatLng(resp) ==
    LET t == TryBody(resp) IN IF t.threw THEN CatchBlock(t) ELSE t

\* ------------------------------------------------------ POST /api/hearts
\* Mutant: the longitude check is missing.
MissingRequiredNoLongitude(body) ==
    body.latitude = None \/ ~TruthyStr(body.type)

\* latitude === undefined || longitude === undefined || !type
MissingRequired(body) ==
    body.latitude = None \/ body.longitude = None \/ ~TruthyStr(body.type)

\* Mutant: a timestamp in the body wins over the clock.
NewDateFromClient(r) ==
    IF reqs[r].body.timestamp # None THEN reqs[r].body.timestamp[1] ELSE clock

\* Mutant: the timestamp is the time the request arrived.
NewDateAtReceipt(r) == reqs[r].recvAt

\* new Date() at line 83
NewDate(r) == clock

\* new Heart({...}) at lines 76-84; mongoose gives the document its _id here.
NewHeart(r, body, geo) ==
    [id |-> r, type |-> body.type[1], latitude |-> body.latitude[1],
     longitude |-> body.longitude[1],
     message |-> IF TruthyStr(body.message) THEN body.message[1] ELSE "",
     countryName |-> geo.countryName, countryCode |-> geo.countryCode,
     timestamp |-> NewDate(r)]

Respond(q, status, error) ==
    [q EXCEPT !.pc = "done", !.status = status, !.error = error, !.nresp = @ + 1]

\* Mutant: the catch sends the cause to the client.
CatchErrorLeaksCause(q) == Respond(q, 500, "Heart validation failed")

\* The handler's catch (lines 88-91).
CatchError(q) == Respond(q, 500, "Failed to create heart")

\* The request arrives and the handler runs to its first await: the 400 of the
\* presence check, or the geocoder call of line 74.
Receive(r, body) ==
    /\ reqs[r].pc = "idle"
    /\ \A p \in Reqs : p < r => reqs[p].pc # "idle"
    /\ LET q == [reqs[r] EXCEPT !.body = body, !.recvAt = clock] IN
       reqs' = [reqs EXCEPT ![r] =
           IF MissingRequired(body)
           THEN Respond(q, 400, "Missing required fields: type, latitude, longitude")
           ELSE [q EXCEPT !.pc = "fetching", !.fetches = @ + 1]]
    /\ UNCHANGED << clock, store, built, get >>

\* The geocoder call settles and the handler runs to its next await: the record
\* is built and save() is called; an error out of the helper goes to the catch.
FetchSettles(r, resp) ==
    /\ reqs[r].pc = "fetching"
    /\ LET geo == getCountryFromServerLatLng(resp)
           q == [reqs[r] EXCEPT !.resp = resp, !.geo = geo]
       IN IF geo.threw
          THEN /\ reqs' = [reqs EXCEPT ![r] = CatchError(q)]
               /\ UNCHANGED built
          ELSE /\ reqs' = [reqs EXCEPT ![r] =
                      [q EXCEPT !.pc = "saving", !.heart = NewHeart(r, q.body, geo)]]
               /\ built' = Append(built, r)
    /\ UNCHANGED << clock, store, get >>

\* What save() does to the collection when it goes through.
Insert(s, h) == Append(s, h)

\* save() settles: the store is up and the document validates, or it rejects.
SaveSettles(r, up) ==
    /\ reqs[r].pc = "saving"
    /\ IF up /\ Validates(reqs[r].heart)
       THEN /\ store' = Insert(store, reqs[r].heart)
            /\ reqs' = [reqs EXCEPT ![r].pc = "saved", ![r].wrote = "ok"]
       ELSE /\ store' = store
            /\ reqs' = [reqs EXCEPT ![r].pc = "rejected", ![r].wrote = "failed"]
    /\ UNCHANGED << clock, built, get >>

\* The handler resumes after save(): line 87, or the catch.
Resume(r) ==
    /\ reqs[r].pc \in {"saved", "rejected"}
    /\ reqs' = [reqs EXCEPT ![r] =
           IF reqs[r].pc = "saved" THEN Respond(reqs[r], 201, "") ELSE CatchError(reqs[r])]
    /\ UNCHANGED << clock, store, built, get >>

\* ------------------------------------------------------- GET /api/hearts
\* sort({ timestamp: -1 }): insertion sort, newest first.
RECURSIVE InsertDesc(_, _)
InsertDesc(h, s) ==
    IF s = << >> THEN << h >>
    ELSE IF h.timestamp >= Head(s).timestamp THEN << h >> \o s
    ELSE << Head(s) >> \o InsertDesc(h, Tail(s))

RECURSIVE SortDesc(_)
SortDesc(s) == IF s = << >> THEN << >> ELSE InsertDesc(Head(s), SortDesc(Tail(s)))

\* Mutant: find() without the sort.
FindUnsorted(s) == s

\* Heart.find().sort({ timestamp: -1 })
FindSorted(s) == SortDesc(s)

Count(S) == Cardinality(S)

\* The list request arrives and find() is called (line 97).
GetReceive ==
    /\ get.pc \in {"idle", "done"}
    /\ get' = [NoGet EXCEPT !.pc = "finding"]
    /\ UNCHANGED << clock, reqs, store, built >>

\* find() settles and the handler answers: 200 with the sorted hearts, or 500.
\* acked and unacked count the creations answered 201, and those written but
\* not yet answered, at the moment of the read.
FindSettles(up) ==
    /\ get.pc = "finding"
    /\ get' = IF up
              THEN [get EXCEPT !.pc = "done", !.status = 200, !.body = FindSorted(store),
                        !.acked = Count({r \in Reqs : reqs[r].status = 201}),
                        !.unacked = Count({r \in Reqs : reqs[r].pc = "saved"})]
              ELSE [get EXCEPT !.pc = "done", !.status = 500,
                        !.error = "Failed to fetch hearts"]
    /\ UNCHANGED << clock, reqs, store, built >>

\* ---------------------------------------------------------------- clock
Tick ==
    /\ clock < MaxClock
    /\ clock' = clock + 1
    /\ UNCHANGED << reqs, store, built, get >>

\* ------------------------------------------------------- specifications
\* Concurrent creation requests and a list request.
Next ==
    \/ \E r \in Reqs, body \in ConcBodies : Receive(r, body)
    \/ \E r \in Reqs, resp \in ConcResponses : FetchSettles(r, resp)
    \/ \E r \in Reqs, up \in BOOLEAN : SaveSettles(r, up)
    \/ \E r \in Reqs : Resume(r)
    \/ GetReceive
    \/ \E up \in BOOLEAN : FindSettles(up)
    \/ Tick

Spec == Init /\ [][Next]_vars

\* One creation request, over every body and every geocoder response.
GeoNext ==
    \/ \E body \in Bodies : Receive(1, body)
    \/ \E resp \in Responses : FetchSettles(1, resp)
    \/ \E up \in BOOLEAN : SaveSettles(1, up)
    \/ Resume(1)
    \/ Tick

GeoSpec == Init /\ [][GeoNext]_vars

\* ================================================================ claims
\* Helpers of the statements below.

\* The positions of the store that hold request r's record.
StoredOf(r) == {i \in 1..Len(store) : store[i].id = r}

\* A required field is absent from the body.
FieldAbsent(body) ==
    body.type = None \/ body.latitude = None \/ body.longitude = None

\* u is s with every letter upper-cased, stated letter by letter.
UpperPairs == {<< "f", "F" >>, << "r", "R" >>, << "F", "F" >>, << "R", "R" >>}

IsUpperOf(u, s) ==
    Len(u) = Len(s) /\ \A i \in 1..Len(s) : << s[i], u[i] >> \in UpperPairs

\* A two-character upper-case code.
UpperChars == {"F", "R", "X"}

IsTwoUpper(c) == Len(c) = 2 /\ \A i \in 1..Len(c) : c[i] \in UpperChars

\* A sequence of hearts, newest first.
NewestFirst(s) ==
    \A i \in 1..Len(s) : \A j \in 1..Len(s) :
        (j = i + 1) => s[i].timestamp >= s[j].timestamp

\* The geocoder answered request r.
Answered(r) == reqs[r].resp # NoResp

\* ----------------------------------------------------------------- C1
\* C1: a creation request that lacks type, latitude or longitude is answered
\* 400 with the fixed message, exactly once, without a geocoder call and
\* without a record of it (or of anything else) reaching the store.
C1_MissingFieldsRejected ==
    \A r \in Reqs :
        (reqs[r].pc # "idle" /\ FieldAbsent(reqs[r].body)) =>
            /\ reqs[r].pc = "done"
            /\ reqs[r].status = 400
            /\ reqs[r].error = "Missing required fields: type, latitude, longitude"
            /\ reqs[r].nresp = 1
            /\ reqs[r].fetches = 0
            /\ StoredOf(r) = {}
            /\ reqs[r].heart = NoHeart

C1_Witness ==
    \E r \in Reqs :
        /\ reqs[r].status = 400
        /\ reqs[r].body.longitude = None
        /\ reqs[r].body.latitude # None
        /\ reqs[r].body.type = Some("redHeart")

\* ----------------------------------------------------------------- C2
\* C2: when the geocoder call rejects or its body does not parse, the helper
\* returns the fallback pair instead of raising, and if the store write goes
\* through the request ends 201 with exactly one record of it in the store,
\* carrying "an unknown location" and "XX".
C2_TransportFailureFallsBack ==
    \A r \in Reqs :
        (Answered(r) /\ reqs[r].resp.kind \in {"reject", "badjson"}) =>
            /\ ~reqs[r].geo.threw
            /\ reqs[r].pc # "done" \/ reqs[r].wrote # "none"
            /\ (reqs[r].pc = "done" /\ reqs[r].wrote = "ok") =>
                  /\ reqs[r].status = 201
                  /\ reqs[r].nresp = 1
                  /\ Cardinality(StoredOf(r)) = 1
                  /\ \A i \in StoredOf(r) :
                        /\ store[i].countryName = "an unknown location"
                        /\ store[i].countryCode = XX

C2_Witness ==
    \E r \in Reqs :
        /\ reqs[r].resp.kind = "reject"
        /\ reqs[r].status = 201
        /\ \E i \in StoredOf(r) : store[i].countryName = "an unknown location"

\* ----------------------------------------------------------------- C3
\* C3 as stated: a non-success HTTP status from the geocoder leaves the helper
\* as an error raised to the create handler, not as a returned pair, and the
\* geocoder is called once.
C3_NotOkPropagates ==
    \A r \in Reqs :
        (Answered(r) /\ reqs[r].resp.kind = "notok") =>
            /\ reqs[r].geo.threw
            /\ reqs[r].fetches = 1

\* C3 amended: a non-success HTTP status is caught inside the helper, which
\* returns the fallback pair "an unknown location", "XX"; nothing is raised to
\* the handler, the geocoder is called once, and the record is built from the
\* fallback pair.
C3_NotOkFallsBack ==
    \A r \in Reqs :
        (Answered(r) /\ reqs[r].resp.kind = "notok") =>
            /\ ~reqs[r].geo.threw
            /\ reqs[r].geo.countryName = "an unknown location"
            /\ reqs[r].geo.countryCode = XX
            /\ reqs[r].fetches = 1
            /\ reqs[r].heart.countryName = "an unknown location"
            /\ reqs[r].status # 500 \/ reqs[r].wrote = "failed"

C3_Witness ==
    \E r \in Reqs :
        /\ reqs[r].resp.kind = "notok"
        /\ reqs[r].status = 201
        /\ reqs[r].fetches = 1

\* ----------------------------------------------------------------- C4
\* C4 as stated: a successful response without an address, or with an address
\* that has no country field, yields exactly "the open sea", "XX", whatever
\* country_code says.
C4_NoCountryIsOpenSeaXX ==
    \A r \in Reqs :
        (/\ Answered(r) /\ reqs[r].resp.kind = "json"
         /\ (~reqs[r].resp.address \/ reqs[r].resp.country = None)) =>
            /\ reqs[r].geo.countryName = "the open sea"
            /\ reqs[r].geo.countryCode = XX

\* C4 amended: such a response yields the name "the open sea"; the code is
\* "XX" when there is no address or country_code is absent or empty, and the
\* upper-cased country_code otherwise.
C4_NoCountryIsOpenSea ==
    \A r \in Reqs :
        (/\ Answered(r) /\ reqs[r].resp.kind = "json"
         /\ (~reqs[r].resp.address \/ reqs[r].resp.country = None)) =>
            /\ ~reqs[r].geo.threw
            /\ reqs[r].geo.countryName = "the open sea"
            /\ IF reqs[r].resp.address /\ TruthyCode(reqs[r].resp.country_code)
               THEN IsUpperOf(reqs[r].geo.countryCode, reqs[r].resp.country_code[1])
               ELSE reqs[r].geo.countryCode = XX

C4_Witness ==
    \E r \in Reqs :
        /\ reqs[r].resp.kind = "json" /\ reqs[r].resp.address
        /\ reqs[r].resp.country = None
        /\ reqs[r].resp.country_code = Some(<< "f", "r" >>)
        /\ reqs[r].geo.countryName = "the open sea"
        /\ reqs[r].geo.countryCode = << "F", "R" >>

\* ----------------------------------------------------------------- C5
\* C5 as stated: when the address has a country field the name is that string
\* unchanged, the code is the upper-cased country_code when the field is
\* there and "XX" when it is not, and the stored record carries both.
C5_CountryVerbatim ==
    \A r \in Reqs :
        (/\ Answered(r) /\ reqs[r].resp.kind = "json" /\ reqs[r].resp.address
         /\ reqs[r].resp.country # None) =>
            /\ reqs[r].geo.countryName = reqs[r].resp.country[1]
            /\ IF reqs[r].resp.country_code # None
               THEN IsUpperOf(reqs[r].geo.countryCode, reqs[r].resp.country_code[1])
               ELSE reqs[r].geo.countryCode = XX

\* C5 amended: when the address has a non-empty country the name is that
\* string unchanged; the code is the upper-cased country_code when that is
\* there and non-empty, and "XX" when it is absent or empty; the stored record
\* carries both values.
C5_NonEmptyCountryVerbatim ==
    \A r \in Reqs :
        (/\ Answered(r) /\ reqs[r].resp.kind = "json" /\ reqs[r].resp.address
         /\ TruthyStr(reqs[r].resp.country)) =>
            /\ ~reqs[r].geo.threw
            /\ reqs[r].geo.countryName = reqs[r].resp.country[1]
            /\ IF TruthyCode(reqs[r].resp.country_code)
               THEN IsUpperOf(reqs[r].geo.countryCode, reqs[r].resp.country_code[1])
               ELSE reqs[r].geo.countryCode = XX
            /\ reqs[r].wrote = "ok" => Cardinality(StoredOf(r)) = 1
            /\ \A i \in StoredOf(r) :
                  /\ store[i].countryName = reqs[r].geo.countryName
                  /\ store[i].countryCode = reqs[r].geo.countryCode

C5_Witness ==
    \E r \in Reqs :
        /\ reqs[r].resp.country = Some("France")
        /\ reqs[r].resp.country_code = Some(<< "f", "r" >>)
        /\ reqs[r].status = 201
        /\ \E i \in StoredOf(r) :
              store[i].countryName = "France" /\ store[i].countryCode = << "F", "R" >>

\* ----------------------------------------------------------------- C6
\* C6: a list request answered 200 returns the records newest first, and when
\* no creation is written but not yet answered at the read, it returns as
\* many records as creations were answered 201.
C6_ListIsCompleteAndSorted ==
    get.status = 200 =>
        /\ NewestFirst(get.body)
        /\ get.unacked = 0 => Len(get.body) = get.acked

C6_Witness ==
    /\ get.status = 200
    /\ get.acked = 2
    /\ get.unacked = 0
    /\ Len(get.body) = 2
    /\ get.body[1].timestamp > get.body[2].timestamp
    /\ get.body[1].id = store[2].id

\* ----------------------------------------------------------------- C7
\* C7: the timestamp of a record answered 201 lies between the clock at the
\* request's arrival and the clock now, whatever timestamp the body carries,
\* and the stored record has that timestamp.
C7_TimestampFromServerClock ==
    \A r \in Reqs :
        reqs[r].status = 201 =>
            /\ reqs[r].recvAt <= reqs[r].heart.timestamp
            /\ reqs[r].heart.timestamp <= clock
            /\ \A i \in StoredOf(r) : store[i].timestamp = reqs[r].heart.timestamp
            /\ StoredOf(r) # {}

C7_Witness ==
    \E r \in Reqs :
        /\ reqs[r].status = 201
        /\ reqs[r].body.timestamp = Some(0)
        /\ reqs[r].recvAt = 1
        /\ \E i \in StoredOf(r) : store[i].timestamp = 1

\* ----------------------------------------------------------------- C8
\* C8: a request that passed the presence check and whose save() rejected is
\* answered 500 with the generic body, exactly once, and leaves no record.
C8_SaveFailureIs500 ==
    \A r \in Reqs :
        reqs[r].wrote = "failed" =>
            /\ StoredOf(r) = {}
            /\ reqs[r].pc \in {"rejected", "done"}
            /\ reqs[r].pc = "rejected" => reqs[r].nresp = 0
            /\ reqs[r].pc = "done" =>
                  /\ reqs[r].status = 500
                  /\ reqs[r].error = "Failed to create heart"
                  /\ reqs[r].nresp = 1

C8_Witness ==
    \E r \in Reqs :
        /\ reqs[r].pc = "done"
        /\ reqs[r].wrote = "failed"
        /\ reqs[r].body.type = Some("blueHeart")
        /\ reqs[r].status = 500

\* ----------------------------------------------------------------- C9
\* C9 as stated: every stored record's countryCode is "XX" or exactly two
\* upper-case characters, whatever the geocoder answered.
C9_CountryCodeTwoUpper ==
    \A i \in 1..Len(store) :
        store[i].countryCode = XX \/ IsTwoUpper(store[i].countryCode)

\* ---------------------------------------------------------------- C10
\* C10 as stated: the store's write order agrees with the timestamps: a
\* record written earlier never has a later timestamp.
C10_WriteOrderIsTimestampOrder ==
    \A i \in 1..Len(store) : \A j \in 1..Len(store) :
        i < j => store[i].timestamp <= store[j].timestamp

\* C10 amended: timestamps are monotone in the order the handler builds the
\* records (before it awaits the write): a record built earlier never has a
\* later timestamp. The order of the store's writes may differ.
C10_BuildOrderIsTimestampOrder ==
    \A i \in 1..Len(built) : \A j \in 1..Len(built) :
        i < j => reqs[built[i]].heart.timestamp <= reqs[built[j]].heart.timestamp

C10_Witness ==
    /\ Len(built) = 2
    /\ Len(store) = 2
    /\ store[1].id = built[2]
    /\ store[1].timestamp > store[2].timestamp

====
